---- MODULE Spec2Model ----
(***************************************************************************)
(* Secure Treasury Management System (assets/erc-7908/stms.py).            *)
(*                                                                         *)
(* A TreasurySystem holds a seed and the BIP32 root key made from it; each *)
(* public method hashes (entity, department) into two hardened indices,    *)
(* walks a derivation path from the root key and returns an account, or an *)
(* extended key text; a static method derives addresses from an extended   *)
(* key text.                                                               *)
(*                                                                         *)
(* Representation.                                                         *)
(*  - A Python int i is the record [ty |-> "int", h |-> i \div 2^31,       *)
(*    v |-> i % 2^31]: v is the low 31 bits and h everything above them,   *)
(*    so bit 31 of i is set iff h is odd, and 0 <= i < 2^32 iff h \in      *)
(*    {0, 1}. A str argument is [ty |-> "str", ...].                       *)
(*  - SHA-256 is the table Sha256Table of the real digests of the messages *)
(*    the model can hash (leading four bytes and hex text).                *)
(*  - HMAC-SHA512 and secp256k1 are injective symbolic functions: a scalar *)
(*    or chain code is the seed it descends from and the sequence of       *)
(*    derivation steps applied to it, a step being the child index and the *)
(*    form of the HMAC data (0x00 || ser256(k) || ser32(i), or             *)
(*    serP(K) || ser32(i)). The point k*G is written as k, so that         *)
(*    IL*G + K_par and (IL + k_par)*G are the same value when IL is the    *)
(*    same HMAC output. The library's None results (IL >= n, k = 0, point  *)
(*    at infinity) have no symbolic value and are left out.                *)
(***************************************************************************)
EXTENDS Integers, Sequences, FiniteSets, TLC

VARIABLES
    mnemonic,   \* the constructor's argument
    seed,       \* self.seed
    root_key,   \* self.root_key
    op,         \* the method called last ("__init__" after construction)
    args,       \* its arguments
    ret,        \* what it returned or raised
    path,       \* the list it handed to _derive_key (<<>> if none)
    handed,     \* the extended key text exported last, as the auditor holds it
    ck          \* a single BIP32Key.ChildKey application (SpecChildKey)

vars == <<mnemonic, seed, root_key, op, args, ret, path, handed, ck>>

-----------------------------------------------------------------------------
(* Bounds and input sets *)

MaxCount == 3

Mnemonics == {"mnemonic-1", "mnemonic-2"}
Entities == {"GroupA", "GroupB"}
\* Dept2091 and Dept15890 have the same department index under GroupA.
Departments == {"Finance", "Audit", "Dept2091", "Dept15890"}

PyInt(h, v) == [ty |-> "int", h |-> h, v |-> v]
\* 0, 1, 2, 2^31-1, 2^31, 2^31+1, 2^32-1, 2^32, -1, and the str "0"
AccountIdxs ==
    { PyInt(0, 0), PyInt(0, 1), PyInt(0, 2), PyInt(0, 2147483647),
      PyInt(1, 0), PyInt(1, 1), PyInt(1, 2147483647), PyInt(2, 0), PyInt(0 - 1, 2147483647),
      [ty |-> "str", h |-> 0, v |-> 0] }
Counts == (0 - 1) .. MaxCount

-----------------------------------------------------------------------------
(* 32-bit words *)

\* i & 0x80000000 (BIP32_HARDEN) is non-zero
IsHardened(i) == i.h % 2 = 1

\* 0 <= i < 2^32: struct.pack(">L", i) accepts i
FitsU32(i) == i.ty = "int" /\ i.h \in {0, 1}

\* x | 0x80000000
OrHarden(x) == [x EXCEPT !.h = IF x.h % 2 = 1 THEN x.h ELSE x.h + 1]

\* int.from_bytes(b[:4], 'big')
FromBytesBig(b) ==
    PyInt(b[1] \div 128,
        (b[1] % 128) * 16777216 + b[2] * 65536 + b[3] * 256 + b[4])

Purpose == 44
CoinType == 60
\* 0x8000002C and 0x8000003C
HardenedPurpose == PyInt(1, Purpose)
HardenedCoinType == PyInt(1, CoinType)

-----------------------------------------------------------------------------
(* hashlib.sha256 *)

Sha256Table ==
  {
    [msg |-> <<"ENTITY:", "GroupA">>,
     b |-> <<154, 21, 120, 2>>,
     hex |-> "9a1578023f099c4fdbd37def7d07640ed52917aa805338e63b24743784892707"],
    [msg |-> <<"DEPT:", "9a1578023f099c4fdbd37def7d07640ed52917aa805338e63b24743784892707", ":", "Finance">>,
     b |-> <<97, 53, 157, 89>>,
     hex |-> "61359d5918053eb57e900a57220f97597c885e6ea18fda800cc08f23658c1003"],
    [msg |-> <<"DEPT:", "9a1578023f099c4fdbd37def7d07640ed52917aa805338e63b24743784892707", ":", "Audit">>,
     b |-> <<88, 182, 127, 74>>,
     hex |-> "58b67f4a8437d308521018fe355b30fb3d906588c9b6dda4c088180cd55d6a87"],
    [msg |-> <<"DEPT:", "9a1578023f099c4fdbd37def7d07640ed52917aa805338e63b24743784892707", ":", "Dept2091">>,
     b |-> <<162, 46, 234, 151>>,
     hex |-> "a22eea97ae465c0740ea3d64394bc79f14b292ba28afddc9b9796f511a76b891"],
    [msg |-> <<"DEPT:", "9a1578023f099c4fdbd37def7d07640ed52917aa805338e63b24743784892707", ":", "Dept15890">>,
     b |-> <<162, 46, 234, 151>>,
     hex |-> "a22eea97e3b4082b43a27069640d3bd7865243c6bcabbd941f66b9c0b3ffd853"],
    [msg |-> <<"ENTITY:", "GroupB">>,
     b |-> <<82, 96, 71, 84>>,
     hex |-> "52604754de6c7879504e769a70f218bb274d18e75a65c682cdd96fa7158b396d"],
    [msg |-> <<"DEPT:", "52604754de6c7879504e769a70f218bb274d18e75a65c682cdd96fa7158b396d", ":", "Finance">>,
     b |-> <<146, 57, 21, 86>>,
     hex |-> "923915561ad893518928e7e1aba0430f4d3169c3906eeb660a7639b93286ac42"],
    [msg |-> <<"DEPT:", "52604754de6c7879504e769a70f218bb274d18e75a65c682cdd96fa7158b396d", ":", "Audit">>,
     b |-> <<86, 198, 95, 251>>,
     hex |-> "56c65ffb706f7b99ed9f4828de20fbd13a0d8e6482d60b66a3cc4935a07c4805"],
    [msg |-> <<"DEPT:", "52604754de6c7879504e769a70f218bb274d18e75a65c682cdd96fa7158b396d", ":", "Dept2091">>,
     b |-> <<225, 118, 80, 221>>,
     hex |-> "e17650dd5c7225afe39cdcfea7f53bbd61c2d8e87665be3493eee15f12a8f956"],
    [msg |-> <<"DEPT:", "52604754de6c7879504e769a70f218bb274d18e75a65c682cdd96fa7158b396d", ":", "Dept15890">>,
     b |-> <<240, 67, 154, 232>>,
     hex |-> "f0439ae8fecb712b623e0bef944fe026dcc12140ac9516cd81b28dc841f673b7"]
  }

Sha256(msg) == CHOOSE r \in Sha256Table : r.msg = msg

EntityInput(entity) == <<"ENTITY:", entity>>
DeptInput(entity_hash, department) == <<"DEPT:", entity_hash.hex, ":", department>>

\* int.from_bytes(digest[:4], 'big') | 0x80000000
HashIndex(digest) == OrHarden(FromBytesBig(digest.b))

\* The copy-and-paste slip: the department index taken from entity_hash.
_hierarchical_hash_entity_only(entity, department) ==
    LET entity_hash == Sha256(EntityInput(entity))
    IN  <<HashIndex(entity_hash), HashIndex(entity_hash)>>

_hierarchical_hash(entity, department) ==
    LET entity_hash == Sha256(EntityInput(entity))
        entity_index == HashIndex(entity_hash)
        dept_hash == Sha256(DeptInput(entity_hash, department))
        dept_index == HashIndex(dept_hash)
    IN  <<entity_index, dept_index>>

-----------------------------------------------------------------------------
(* Key material: mnemonic.Mnemonic, bip32utils.BIP32Key, eth_account.Account *)

\* Mnemonic.to_seed(mnemonic, passphrase="")
to_seed(m) == [mnemonic |-> m, passphrase |-> ""]

NoSeed == [mnemonic |-> "", passphrase |-> ""]
\* None, and the four zero bytes of the master key's parent fingerprint
NoMaterial == [seed |-> NoSeed, steps |-> <<>>]

\* One child derivation applied to a scalar, a point or a chain code.
Extend(m, i, fmt) == [m EXCEPT !.steps = Append(@, [i |-> i, fmt |-> fmt])]

NoKey ==
    [public |-> FALSE, k |-> NoMaterial, K |-> NoMaterial, C |-> NoMaterial,
     depth |-> 0, index |-> PyInt(0, 0), parent_fpr |-> NoMaterial]

\* BIP32Key.fromEntropy(entropy): I = HMAC-SHA512("Bitcoin seed", entropy)
fromEntropy(entropy) ==
    LET I == [seed |-> entropy, steps |-> <<>>]
    IN  [public |-> FALSE, k |-> I, K |-> I, C |-> I,
         depth |-> 0, index |-> PyInt(0, 0), parent_fpr |-> NoMaterial]

\* BIP32Key.Fingerprint(): the leading bytes of hash160 of the public key
Fingerprint(key) == key.K

Raise(e) == [exc |-> e, key |-> NoKey]
Return(key) == [exc |-> "none", key |-> key]

\* BIP32Key.CKDpriv(i)
CKDpriv(key, i) ==
    IF ~FitsU32(i) THEN Raise("struct.error")
    ELSE LET fmt == IF IsHardened(i) THEN "0x00||ser256(k)||ser32(i)"
                    ELSE "serP(K)||ser32(i)"
         IN  Return([public |-> FALSE,
                     k |-> Extend(key.k, i, fmt),
                     K |-> Extend(key.k, i, fmt),
                     C |-> Extend(key.C, i, fmt),
                     depth |-> key.depth + 1, index |-> i,
                     parent_fpr |-> Fingerprint(key)])

\* CKDpub without its first test.
CKDpub_unguarded(key, i) ==
    IF ~FitsU32(i) THEN Raise("struct.error")
    ELSE Return([public |-> TRUE, k |-> NoMaterial,
                 K |-> Extend(key.K, i, "serP(K)||ser32(i)"),
                 C |-> Extend(key.C, i, "serP(K)||ser32(i)"),
                 depth |-> key.depth + 1, index |-> i,
                 parent_fpr |-> Fingerprint(key)])

\* BIP32Key.CKDpub(i)
CKDpub(key, i) ==
    IF IsHardened(i) THEN Raise("Exception: hardened child from public key")
    ELSE IF ~FitsU32(i) THEN Raise("struct.error")
    ELSE Return([public |-> TRUE, k |-> NoMaterial,
                 K |-> Extend(key.K, i, "serP(K)||ser32(i)"),
                 C |-> Extend(key.C, i, "serP(K)||ser32(i)"),
                 depth |-> key.depth + 1, index |-> i,
                 parent_fpr |-> Fingerprint(key)])

\* BIP32Key.ChildKey(i)
ChildKey(key, i) == IF key.public = FALSE THEN CKDpriv(key, i) ELSE CKDpub(key, i)

\* BIP32Key.PrivateKey()
PrivateKey(key) ==
    IF key.public THEN [exc |-> "Exception: no private half", bytes |-> NoMaterial]
    ELSE [exc |-> "none", bytes |-> key.k]

\* bytes.hex()
Hex(bytes) == [enc |-> "hex", of |-> bytes]
Bytes(bytes) == [enc |-> "bytes", of |-> bytes]

\* Account.from_key(private_key).address, private_key bytes or hex text: the
\* address of the public key private_key*G
AddressFromKey(private_key) == [address_of |-> private_key.of]

\* The address of a public key, as eth_account computes it from the point.
AddressOfPoint(K) == [address_of |-> K]

EX_MAIN_PRIVATE == "0488ADE4"
EX_MAIN_PUBLIC == "0488B21E"

NoRaw ==
    [version |-> "", depth |-> 0, fpr |-> NoMaterial, child |-> PyInt(0, 0),
     chain |-> NoMaterial, data |-> [lead |-> "", body |-> NoMaterial]]
NoXkey == [raw |-> NoRaw, chk |-> NoRaw]

\* Base58.check_encode(raw): raw followed by the leading bytes of its double hash
check_encode(raw) == [raw |-> raw, chk |-> raw]

\* BIP32Key.ExtendedKey(private=True, encoded=True)
ExtendedKey(key, private) ==
    IF key.public = TRUE /\ private = TRUE
    THEN [exc |-> "Exception: no private key to export", text |-> NoXkey]
    ELSE LET version == IF private THEN EX_MAIN_PRIVATE ELSE EX_MAIN_PUBLIC
             data == IF key.public = TRUE \/ private = FALSE
                     THEN [lead |-> "02/03", body |-> key.K]
                     ELSE [lead |-> "00", body |-> key.k]
             raw == [version |-> version, depth |-> key.depth,
                     fpr |-> key.parent_fpr, child |-> key.index,
                     chain |-> key.C, data |-> data]
         IN  [exc |-> "none", text |-> check_encode(raw)]

\* BIP32Key.fromExtendedKey(xkey)
fromExtendedKey(xkey) ==
    IF xkey.chk # xkey.raw THEN Raise("ValueError: checksum")
    ELSE LET raw == xkey.raw IN
         IF raw.version = EX_MAIN_PRIVATE
         THEN Return([public |-> FALSE, k |-> raw.data.body, K |-> raw.data.body,
                      C |-> raw.chain, depth |-> raw.depth, index |-> raw.child,
                      parent_fpr |-> raw.fpr])
         ELSE IF raw.version = EX_MAIN_PUBLIC
         THEN Return([public |-> TRUE, k |-> NoMaterial, K |-> raw.data.body,
                      C |-> raw.chain, depth |-> raw.depth, index |-> raw.child,
                      parent_fpr |-> raw.fpr])
         ELSE Raise("ValueError: version")

-----------------------------------------------------------------------------
(* TreasurySystem *)

NoPathText == [fmt |-> "", parts |-> <<>>]
NoArgs ==
    [entity |-> "", department |-> "", account_idx |-> PyInt(0, 0),
     xpub |-> NoXkey, count |-> 0]
NoRet ==
    [exc |-> "none", path |-> NoPathText, private_key |-> Hex(NoMaterial),
     address |-> AddressFromKey(Hex(NoMaterial)), xkey |-> NoXkey,
     addresses |-> <<>>]
Raised(e) == [NoRet EXCEPT !.exc = e]

\* The loop of _derive_key from position n of path on.
RECURSIVE Walk(_, _, _)
Walk(current_key, p, n) ==
    IF n > Len(p) THEN Return(current_key)
    ELSE IF p[n].ty # "int" THEN Raise("TypeError")
    ELSE LET child == ChildKey(current_key, p[n])
         IN  IF child.exc # "none" THEN child ELSE Walk(child.key, p, n + 1)

\* _derive_key(path): the key it returns, or what it raises
_derive_key(self_root_key, p) == Walk(self_root_key, p, 1)

\* The walk advancing the object's own key instead of a local one.
_derive_key_root_advanced(self_root_key, p) ==
    LET r == Walk(self_root_key, p, 1)
    IN  IF r.exc = "none" THEN r.key ELSE self_root_key

\* self.root_key after _derive_key(path): current_key is a local name, and
\* ChildKey returns a new key, so the field keeps its value.
_derive_key_root(self_root_key, p) == self_root_key

\* The derivation paths the three methods build.
AccountPath(entity, department, account_idx) ==
    LET hh == _hierarchical_hash(entity, department)
    IN  <<HardenedPurpose, HardenedCoinType, hh[1], hh[2], account_idx>>

AuditPath(entity, department) ==
    LET hh == _hierarchical_hash(entity, department)
    IN  <<HardenedPurpose, HardenedCoinType, hh[1], hh[2]>>

\* The path ending at the entity level.
XprvPath_no_department(entity, department) ==
    LET hh == _hierarchical_hash(entity, department)
    IN  <<HardenedPurpose, HardenedCoinType, hh[1]>>

XprvPath(entity, department) ==
    LET hh == _hierarchical_hash(entity, department)
    IN  <<HardenedPurpose, HardenedCoinType, hh[1], hh[2]>>

\* generate_account(entity, department, account_idx)
generate_account(self_root_key, entity, department, account_idx) ==
    LET hh == _hierarchical_hash(entity, department)
        derivation_path == AccountPath(entity, department, account_idx)
        key == _derive_key(self_root_key, derivation_path)
    IN  IF key.exc # "none" THEN Raised(key.exc)
        ELSE LET priv == PrivateKey(key.key) IN
             IF priv.exc # "none" THEN Raised(priv.exc)
             ELSE LET priv_key == Hex(priv.bytes)
                  IN  [NoRet EXCEPT
                         !.path = [fmt |-> "m/44'/60'/{}'/{}'/{}",
                                   parts |-> <<hh[1], hh[2], account_idx>>],
                         !.private_key = priv_key,
                         !.address = AddressFromKey(priv_key)]

\* return self._derive_key(path).ExtendedKey(): private defaults to True
ExportExtendedKey(self_root_key, p) ==
    LET key == _derive_key(self_root_key, p)
    IN  IF key.exc # "none" THEN Raised(key.exc)
        ELSE LET x == ExtendedKey(key.key, TRUE)
             IN  IF x.exc # "none" THEN Raised(x.exc)
                 ELSE [NoRet EXCEPT !.xkey = x.text]

\* get_audit_xpub(entity, department)
get_audit_xpub(self_root_key, entity, department) ==
    ExportExtendedKey(self_root_key, AuditPath(entity, department))

\* get_dept_xprv(entity, department)
get_dept_xprv(self_root_key, entity, department) ==
    ExportExtendedKey(self_root_key, XprvPath(entity, department))

\* The list comprehension over i from first to count - 1, addresses so far in acc.
RECURSIVE AddressList(_, _, _, _)
AddressList(audit_key, i, count, acc) ==
    IF i >= count THEN [NoRet EXCEPT !.addresses = acc]
    ELSE LET child == ChildKey(audit_key, PyInt(0, i)) IN
         IF child.exc # "none" THEN Raised(child.exc)
         ELSE LET priv == PrivateKey(child.key) IN
              IF priv.exc # "none" THEN Raised(priv.exc)
              ELSE AddressList(audit_key, i + 1, count,
                               Append(acc, AddressFromKey(Bytes(priv.bytes))))

\* The comprehension over range(1, count).
derive_addresses_from_xpub_from_one(xpub, count) ==
    LET audit_key == fromExtendedKey(xpub)
    IN  IF audit_key.exc # "none" THEN Raised(audit_key.exc)
        ELSE AddressList(audit_key.key, 1, count, <<>>)

\* derive_addresses_from_xpub(xpub, count)
derive_addresses_from_xpub(xpub, count) ==
    LET audit_key == fromExtendedKey(xpub)
    IN  IF audit_key.exc # "none" THEN Raised(audit_key.exc)
        ELSE AddressList(audit_key.key, 0, count, <<>>)

-----------------------------------------------------------------------------
(* The texts an auditor may pass to derive_addresses_from_xpub: the text    *)
(* handed over, the public extended key of the same node, and the text     *)
(* with a damaged checksum.                                                *)

PublicText(xkey) == ExtendedKey(fromExtendedKey(xkey).key, FALSE).text
Damaged(xkey) == [xkey EXCEPT !.chk = NoRaw]
AuditorTexts(xkey) == {xkey, PublicText(xkey), Damaged(xkey)}

-----------------------------------------------------------------------------
(* The state machine of one TreasurySystem and its callers *)

NoCk == [start |-> NoKey, key |-> NoKey, exc |-> "none", trail |-> <<>>]

\* __init__(mnemonic), for a mnemonic that Mnemonic("english").check accepts
Init ==
    /\ mnemonic \in Mnemonics
    /\ seed = to_seed(mnemonic)
    /\ root_key = fromEntropy(seed)
    /\ op = "__init__"
    /\ args = NoArgs
    /\ ret = NoRet
    /\ path = <<>>
    /\ handed = NoXkey
    /\ ck = NoCk

GenerateAccount(entity, department, account_idx) ==
    /\ op' = "generate_account"
    /\ args' = [NoArgs EXCEPT !.entity = entity, !.department = department,
                              !.account_idx = account_idx]
    /\ path' = AccountPath(entity, department, account_idx)
    /\ ret' = generate_account(root_key, entity, department, account_idx)
    /\ root_key' = _derive_key_root(root_key, path')
    /\ UNCHANGED <<mnemonic, seed, handed, ck>>

GetAuditXpub(entity, department) ==
    /\ op' = "get_audit_xpub"
    /\ args' = [NoArgs EXCEPT !.entity = entity, !.department = department]
    /\ path' = AuditPath(entity, department)
    /\ ret' = get_audit_xpub(root_key, entity, department)
    /\ root_key' = _derive_key_root(root_key, path')
    /\ handed' = IF ret'.exc = "none" THEN ret'.xkey ELSE handed
    /\ UNCHANGED <<mnemonic, seed, ck>>

GetDeptXprv(entity, department) ==
    /\ op' = "get_dept_xprv"
    /\ args' = [NoArgs EXCEPT !.entity = entity, !.department = department]
    /\ path' = XprvPath(entity, department)
    /\ ret' = get_dept_xprv(root_key, entity, department)
    /\ root_key' = _derive_key_root(root_key, path')
    /\ handed' = IF ret'.exc = "none" THEN ret'.xkey ELSE handed
    /\ UNCHANGED <<mnemonic, seed, ck>>

DeriveAddressesFromXpub(xpub, count) ==
    /\ handed # NoXkey
    /\ op' = "derive_addresses_from_xpub"
    /\ args' = [NoArgs EXCEPT !.xpub = xpub, !.count = count]
    /\ path' = <<>>
    /\ ret' = derive_addresses_from_xpub(xpub, count)
    /\ UNCHANGED <<mnemonic, seed, root_key, handed, ck>>

Next ==
    \/ \E e \in Entities, d \in Departments, a \in AccountIdxs :
           GenerateAccount(e, d, a)
    \/ \E e \in Entities, d \in Departments : GetAuditXpub(e, d)
    \/ \E e \in Entities, d \in Departments : GetDeptXprv(e, d)
    \/ \E x \in AuditorTexts(handed), n \in Counts :
           DeriveAddressesFromXpub(x, n)

Spec == Init /\ [][Next]_vars

-----------------------------------------------------------------------------
(* BIP32Key.ChildKey on its own: walks of at most MaxWalk steps from a      *)
(* department key, private or public-only, as an auditor holding an        *)
(* extended key text can make them.                                        *)

MaxWalk == 2

WalkIdxs == {i \in AccountIdxs : i.ty = "int"}

DeptTexts(root) ==
    UNION { AuditorTexts(get_dept_xprv(root, e, d).xkey) \ {Damaged(get_dept_xprv(root, e, d).xkey)} :
            e \in Entities, d \in Departments }

InitChildKey ==
    /\ mnemonic \in Mnemonics
    /\ seed = to_seed(mnemonic)
    /\ root_key = fromEntropy(seed)
    /\ op = "__init__"
    /\ args = NoArgs
    /\ ret = NoRet
    /\ path = <<>>
    /\ handed = NoXkey
    /\ \E x \in DeptTexts(root_key) :
           ck = [start |-> fromExtendedKey(x).key, key |-> fromExtendedKey(x).key,
                 exc |-> "none", trail |-> <<>>]

ChildKeyStep(i) ==
    /\ ck.exc = "none"
    /\ Len(ck.trail) < MaxWalk
    /\ LET child == ChildKey(ck.key, i)
       IN  ck' = [ck EXCEPT !.key = child.key, !.exc = child.exc,
                            !.trail = Append(@, i)]
    /\ UNCHANGED <<mnemonic, seed, root_key, op, args, ret, path, handed>>

NextChildKey == \E i \in WalkIdxs : ChildKeyStep(i)

SpecChildKey == InitChildKey /\ [][NextChildKey]_vars

-----------------------------------------------------------------------------
(* Properties *)

Range(s) == {s[n] : n \in 1 .. Len(s)}

Derived == op = "derive_addresses_from_xpub"

\* The key args.xpub decodes to, or what decoding raises.
Decoded == fromExtendedKey(args.xpub)

\* C1: whenever get_audit_xpub returns, the text it returns is a public
\* extended key of the 4-segment department path: tagged public, decoding to
\* a public-only key, carrying no private scalar.
C1_AuditXpubIsPublic ==
    (op = "get_audit_xpub" /\ ret.exc = "none") =>
        /\ Len(path) = 4
        /\ ret.xkey.raw.depth = 4
        /\ ret.xkey.raw.version = EX_MAIN_PUBLIC
        /\ ret.xkey.raw.data.lead # "00"
        /\ fromExtendedKey(ret.xkey).key.public = TRUE
        /\ fromExtendedKey(ret.xkey).key.k = NoMaterial

\* C2: derive_addresses_from_xpub, called with a text that decodes to a
\* private key, raises (the error the specification names ExpectedPublicKey)
\* and returns no address.
C2_PrivateTextRejected ==
    (Derived /\ Decoded.exc = "none" /\ Decoded.key.public = FALSE) =>
        /\ ret.exc # "none"
        /\ ret.addresses = <<>>

\* C3: generate_account with an account index >= 2^31 raises (the error the
\* specification names InvalidAccountIndex) and returns no path, private key
\* or address; a result is produced only for an index in 0 .. 2^31-1.
C3_HardenedAccountIndexRejected ==
    op = "generate_account" =>
        /\ (args.account_idx.ty = "int" /\ args.account_idx.h >= 1) =>
               (ret.exc # "none" /\ ret = Raised(ret.exc))
        /\ ret.exc = "none" =>
               (args.account_idx.ty = "int" /\ args.account_idx.h = 0)

\* C4 (audit completeness): when derive_addresses_from_xpub is called with the
\* text get_audit_xpub returns for (E, D) and a count N, it returns, and the
\* address generate_account(E, D, i) returns is in its list for every i < N.
C4_AuditCompleteness ==
    \A e \in Entities, d \in Departments :
        (Derived /\ args.xpub = get_audit_xpub(root_key, e, d).xkey) =>
            /\ ret.exc = "none"
            /\ \A i \in 0 .. (args.count - 1) :
                   LET acc == generate_account(root_key, e, d, PyInt(0, i))
                   IN  acc.exc = "none" /\ acc.address \in Range(ret.addresses)

C4_Witness ==
    /\ Derived
    /\ args.xpub = get_audit_xpub(root_key, "GroupA", "Finance").xkey
    /\ args.count = 2
    /\ ret.exc = "none"
    /\ generate_account(root_key, "GroupA", "Finance", PyInt(0, 0)).address
           \in Range(ret.addresses)
    /\ generate_account(root_key, "GroupA", "Finance", PyInt(0, 1)).address
           \in Range(ret.addresses)

\* The department index SHA-256 gives (entity, department).
DeptIndexOf(e, d) == HashIndex(Sha256(DeptInput(Sha256(EntityInput(e)), d)))

\* C5 (department isolation): when derive_addresses_from_xpub returns a list
\* for the text exported for (E, D2), no address generate_account returns for
\* (E, D1, i), with D1 # D2 of a different hashed department index and i any
\* account index, is in the list.
C5_DepartmentIsolation ==
    \A e \in Entities, d2 \in Departments :
        (Derived /\ ret.exc = "none"
                 /\ args.xpub = get_audit_xpub(root_key, e, d2).xkey) =>
            \A d1 \in Departments \ {d2}, a \in AccountIdxs :
                LET acc == generate_account(root_key, e, d1, a)
                IN  (DeptIndexOf(e, d1) # DeptIndexOf(e, d2) /\ acc.exc = "none")
                        => acc.address \notin Range(ret.addresses)

C5_Witness ==
    /\ Derived
    /\ ret.exc = "none"
    /\ args.xpub = get_audit_xpub(root_key, "GroupA", "Finance").xkey
    /\ args.count = 2
    /\ DeptIndexOf("GroupA", "Audit") # DeptIndexOf("GroupA", "Finance")
    /\ generate_account(root_key, "GroupA", "Audit", PyInt(0, 0)).exc = "none"
    /\ generate_account(root_key, "GroupA", "Audit", PyInt(0, 0)).address
           \notin Range(ret.addresses)

\* C6: the text get_dept_xprv returns for (E, D) decodes to a key whose child
\* at any non-hardened index i has the private key generate_account(E, D, i)
\* returns.
C6_XprvChildIsAccountKey ==
    (op = "get_dept_xprv" /\ ret.exc = "none") =>
        \A i \in {a \in AccountIdxs : a.ty = "int" /\ a.h = 0} :
            LET dept_key == fromExtendedKey(ret.xkey)
                child == ChildKey(dept_key.key, i)
                acc == generate_account(root_key, args.entity, args.department, i)
            IN  /\ dept_key.exc = "none"
                /\ child.exc = "none"
                /\ PrivateKey(child.key).exc = "none"
                /\ acc.exc = "none"
                /\ Hex(PrivateKey(child.key).bytes) = acc.private_key

C6_Witness ==
    /\ op = "get_dept_xprv"
    /\ ret.exc = "none"
    /\ args.entity = "GroupA"
    /\ args.department = "Finance"
    /\ Hex(PrivateKey(ChildKey(fromExtendedKey(ret.xkey).key, PyInt(0, 1)).key).bytes)
           = generate_account(root_key, "GroupA", "Finance", PyInt(0, 1)).private_key

\* C7: derive_addresses_from_xpub, called with a public extended key text and
\* a count, returns exactly count addresses, the k-th being the address of the
\* child the key has at index k.
C7_ExactlyCountInOrder ==
    (Derived /\ Decoded.exc = "none" /\ Decoded.key.public = TRUE
             /\ args.count >= 0) =>
        /\ ret.exc = "none"
        /\ Len(ret.addresses) = args.count
        /\ \A k \in 0 .. (args.count - 1) :
               ret.addresses[k + 1]
                   = AddressOfPoint(ChildKey(Decoded.key, PyInt(0, k)).key.K)

C9_PathHardening ==
    path # <<>> =>
        /\ Len(path) >= 4
        /\ \A n \in 1 .. 4 : path[n].ty = "int" /\ path[n].h = 1
        /\ (Len(path) = 5 /\ ret.exc = "none") => ~IsHardened(path[5])

\* What the method op returns for arguments a on an object whose root key is
\* root.
ResultOf(root, o, a) ==
    CASE o = "generate_account" ->
             generate_account(root, a.entity, a.department, a.account_idx)
      [] o = "get_audit_xpub" -> get_audit_xpub(root, a.entity, a.department)
      [] o = "get_dept_xprv" -> get_dept_xprv(root, a.entity, a.department)
      [] o = "derive_addresses_from_xpub" ->
             derive_addresses_from_xpub(a.xpub, a.count)
      [] OTHER -> NoRet

\* C10: after any sequence of calls, failed ones included, seed and root_key
\* are what construction made them, and what the last call returned or raised
\* is what it returns or raises on the freshly constructed object.
C10_RootKeyReadOnly ==
    /\ seed = to_seed(mnemonic)
    /\ root_key = fromEntropy(to_seed(mnemonic))
    /\ ret = ResultOf(fromEntropy(to_seed(mnemonic)), op, args)

C10_Witness ==
    /\ op = "generate_account"
    /\ handed # NoXkey
    /\ ret.exc = "TypeError"
    /\ root_key = fromEntropy(to_seed(mnemonic))

====
